---------------------------- MODULE Spec2Model ----------------------------
(***************************************************************************)
(* Model of the alert investigation and ticketing pipeline of sm3_agent    *)
(* and of the tool-invocation channel it depends on:                       *)
(*   - MCPClient (sm3_agent/backend/tools/mcp_client.py): connect with     *)
(*     retry, disconnect, ensure_connected, invoke_tool with result cache, *)
(*     invalidate_cache;                                                   *)
(*   - the Grafana webhook, the background alert processing, the AI        *)
(*     investigation with its fallback, and the mock ticket store          *)
(*     (sm3_agent/backend/api/alerts.py).                                  *)
(* Coroutines are cut at their await points: one action per stretch of     *)
(* code the event loop runs without yielding.                              *)
(***************************************************************************)
EXTENDS Integers, Sequences, FiniteSets, TLC

(***************************************************************************)
(* Bounds and input domains of the connection manager.                     *)
(***************************************************************************)
\* self._max_retries
max_retries == 3

\* AsyncExitStack objects that may be alive (referenced or holding resources)
\* at the same time
MaxStacks == 2

StackIds == 1..MaxStacks

\* None (for object references, which are stack ids >= 1)
NONE == 0

\* the value of an absent string / result
NoVal == "none"

\* underlying failures the transport, the session or the remote tool may raise
Errors == {"e1", "e2"}

\* failure raised by Python itself when a method is called on None
AttributeError == "AttributeError"

\* tool names
ToolNames == {"prometheus_query", "loki_query"}

\* argument mappings in insertion order (a Python dict literal): the 2nd and 3rd
\* are the same mapping written in two orders
ArgDicts ==
    { << <<"query", "up">> >>,
      << <<"query", "up">>, <<"step", "60">> >>,
      << <<"step", "60">>, <<"query", "up">> >> }

\* contents a tool response may carry
Contents == {"v1", "v2"}

\* the callers of the connection manager for the single-caller specification
Callers == {1}

VARIABLES
    session,              \* self.session: NONE or the stack its context was entered in
    exit_stack,           \* self._exit_stack: NONE or a stack id
    connection_attempts,  \* self._connection_attempts
    stacks,               \* stack id -> contexts entered and not yet exited
    cache,                \* the process-wide tool result cache: key -> content
    pc,                   \* caller -> await point it is suspended at
    op,                   \* caller -> the public method it is (or was last) in
    frame,                \* caller -> locals: last_error, bound stack/session
    res,                  \* caller -> outcome of its last completed method
    lastRet               \* observer: call as written -> content the last invoke
                          \* that fetched it returned, until it is invalidated

connVars == <<session, exit_stack, connection_attempts, stacks, cache,
              pc, op, frame, res, lastRet>>

\* the alert pipeline
VARIABLES
    requests,      \* the payloads received, in order of arrival
    responses,     \* the response returned to each
    background,    \* per request: the alerts handed to background_tasks.add_task
    running,       \* per request: where its current background task is suspended
    finished,      \* per request: how many of its background tasks are over
    last,          \* observer: how the background task that ended last ended
    tickets_dir,   \* TICKETS_DIR: file name -> content
    now            \* datetime.utcnow(), in seconds

alertVars == <<requests, responses, background, running, finished, last,
              tickets_dir, now>>

\* the ticket endpoints and the confidence score, called directly
VARIABLES
    reply,         \* observer: what the ticket endpoint called last answered
    creates,       \* observer: the tickets create_servicenow_ticket returned when
                   \* called directly, since the last clear_tickets
    scored,        \* observer: the last calculate_confidence call and its value
    parsed         \* observer: the last investigate_alert_with_ai call and what
                   \* it returned

storeVars == <<reply, creates, scored, parsed>>

(***************************************************************************)
(* Exit stacks.  A stack is the set of contexts entered in it and not yet  *)
(* exited; FREE marks an id that no live object uses.                      *)
(***************************************************************************)
FREE == {"free"}

EMPTY == {}

\* ids of stacks that hold at least one resource
OpenStacks(st) == {i \in StackIds : st[i] # FREE /\ st[i] # EMPTY}

\* a stack object is garbage once it holds nothing and nobody references it
Collect(st, refs) ==
    [i \in StackIds |-> IF st[i] = EMPTY /\ i \notin refs THEN FREE ELSE st[i]]

\* AsyncExitStack(): a fresh object
NewStack(st) == CHOOSE i \in StackIds : st[i] = FREE /\ \A j \in StackIds : st[j] = FREE => i <= j

CanAllocate(st) == \E i \in StackIds : st[i] = FREE

\* references held by suspended callers
FrameRefs(fr) == {fr[t].stk : t \in DOMAIN fr} \cup {fr[t].sess : t \in DOMAIN fr}

(***************************************************************************)
(* The tool result cache (backend.tools.cache).                            *)
(***************************************************************************)
\* canonical form of an argument mapping: independent of insertion order
Canon(args) == {args[i] : i \in DOMAIN args}

CanonArgs == {Canon(a) : a \in ArgDicts}

Keys == ToolNames \X CanonArgs

\* calls as written by the caller, and what makes two of them the same call:
\* the same tool and equal mappings (dict equality ignores insertion order)
RawKeys == ToolNames \X ArgDicts

SameMapping(a, b) ==
    /\ \A i \in DOMAIN a : \E j \in DOMAIN b : a[i] = b[j]
    /\ \A j \in DOMAIN b : \E i \in DOMAIN a : a[i] = b[j]

CacheKey(name, args) == <<name, Canon(args)>>

\* cache.get(name, arguments): the stored content or None
CacheGet(c, name, args) == c[CacheKey(name, args)]

\* cache.set(name, arguments, result)
CacheSet(c, name, args, v) == [c EXCEPT ![CacheKey(name, args)] = v]

\* the optional arguments of invalidate: <<>> is None, <<a>> is the mapping a
OptArgs == {<<>>} \cup {<<a>> : a \in ArgDicts}

\* cache.invalidate(name, arguments): arguments None is the wildcard
CacheInvalidate(c, name, optargs) ==
    [k \in Keys |->
        IF k[1] = name /\ (optargs = <<>> \/ k[2] = Canon(optargs[1]))
        THEN NoVal ELSE c[k]]

(***************************************************************************)
(* Outcomes of the public methods.                                         *)
(***************************************************************************)
NoRes == [kind |-> "none", val |-> NoVal, err |-> NoVal, tool |-> NoVal, cause |-> NoVal]

Returned(v) == [NoRes EXCEPT !.kind = "returned", !.val = v]

\* raise Exception("Failed to connect to MCP server after ...") from last_error
ConnectionError(cause) ==
    [NoRes EXCEPT !.kind = "raised", !.err = "ConnectionError", !.cause = cause]

\* raise Exception(f"Failed to invoke tool '{name}': ...") from e
InvocationError(name, cause) ==
    [NoRes EXCEPT !.kind = "raised", !.err = "InvocationError", !.tool = name,
                  !.cause = cause]

\* {"error": f"No response from tool {name}"}
NoResponse(name) == [NoRes EXCEPT !.kind = "returned", !.val = "error", !.tool = name]

NoOp == [type |-> "none", name |-> NoVal, args |-> <<>>]

\* locals of connect(): last_error, and the objects an awaited call is bound to;
\* att0, made, fails and lastFail only observe the call: the counter at its
\* entry, the attempts it started, those that failed, and the latest failure;
\* overtaken observes an invoke: its entry was invalidated while its remote
\* call was in flight
NoFrame == [last_error |-> NoVal, stk |-> NONE, sess |-> NONE,
            att0 |-> 0, made |-> 0, fails |-> 0, lastFail |-> NoVal,
            overtaken |-> FALSE]

ConnInit ==
    /\ session = NONE
    /\ exit_stack = NONE
    /\ connection_attempts = 0
    /\ stacks = [i \in StackIds |-> FREE]
    /\ cache = [k \in Keys |-> NoVal]
    /\ pc = [t \in Callers |-> "idle"]
    /\ op = [t \in Callers |-> NoOp]
    /\ frame = [t \in Callers |-> NoFrame]
    /\ res = [t \in Callers |-> NoRes]
    /\ lastRet = [k \in RawKeys |-> NoVal]

(***************************************************************************)
(* MCPClient.connect, cut at its awaits.                                   *)
(***************************************************************************)
Refs(es, s, fr) == {es, s} \cup FrameRefs(fr)

\* connect() is over for caller t (ok: it returned, else it raised a
\* ConnectionError caused by fr.last_error); control is back in the method
\* that called it.  s is self.session at that moment.
ConnectDone(t, o, ok, s, fr) ==
    IF o.type = "invoke"
    THEN IF ~ok
         THEN \* invoke_tool line 163: except Exception
              /\ pc' = [pc EXCEPT ![t] = "idle"]
              /\ frame' = [frame EXCEPT ![t] = fr]
              /\ res' = [res EXCEPT ![t] = InvocationError(o.name, "ConnectionError")]
         ELSE IF s = NONE
         THEN \* line 150: self.session is None
              /\ pc' = [pc EXCEPT ![t] = "idle"]
              /\ frame' = [frame EXCEPT ![t] = fr]
              /\ res' = [res EXCEPT ![t] = InvocationError(o.name, AttributeError)]
         ELSE \* line 150: await self.session.call_tool(...)
              /\ pc' = [pc EXCEPT ![t] = "i_call"]
              /\ frame' = [frame EXCEPT ![t] = [fr EXCEPT !.sess = s]]
              /\ res' = [res EXCEPT ![t] = NoRes]
    ELSE /\ pc' = [pc EXCEPT ![t] = "idle"]
         /\ frame' = [frame EXCEPT ![t] = fr]
         /\ res' = [res EXCEPT ![t] =
                     IF ok THEN Returned(NoVal) ELSE ConnectionError(fr.last_error)]

\* line 52: while self._connection_attempts < self._max_retries, and lines
\* 60-64 up to the first await of an attempt
LoopHead(t, o, att, es, s, st, fr) ==
    IF att < max_retries
    THEN LET st1 == Collect(st, Refs(NONE, s, [frame EXCEPT ![t] = NoFrame]) \cup
                            (IF es # NONE /\ st[es] # EMPTY THEN {es} ELSE {}))
             id  == NewStack(st1)
         IN  /\ CanAllocate(st1)
             /\ connection_attempts' = att
             /\ exit_stack' = id
             /\ session' = s
             /\ pc' = [pc EXCEPT ![t] = "c_transport"]
             /\ frame' = [frame EXCEPT ![t] =
                            [fr EXCEPT !.stk = id, !.sess = NONE, !.made = fr.made + 1]]
             /\ res' = [res EXCEPT ![t] = NoRes]
             /\ stacks' = [st1 EXCEPT ![id] = EMPTY]
    ELSE \* the loop is not entered: connect() falls off its end and returns
         /\ connection_attempts' = att
         /\ exit_stack' = es
         /\ session' = s
         /\ ConnectDone(t, o, TRUE, s, [fr EXCEPT !.stk = NONE, !.sess = NONE])
         /\ stacks' = Collect(st, Refs(es, s, frame'))

\* lines 101-104, then back to the loop test
RetryOrRaise(t, o, att, es, s, st, fr) ==
    IF att >= max_retries
    THEN /\ connection_attempts' = att
         /\ exit_stack' = es
         /\ session' = s
         /\ ConnectDone(t, o, FALSE, s, [fr EXCEPT !.stk = NONE, !.sess = NONE])
         /\ stacks' = Collect(st, Refs(es, s, frame'))
    ELSE LoopHead(t, o, att, es, s, st, fr)

\* line 81: last_error = e
RecordError(prev, e) == e

\* lines 80-99: except Exception as e, up to the await of __aexit__
Failure(t, o, e, s, st) ==
    LET att == connection_attempts + 1
        fr  == [frame[t] EXCEPT !.last_error = RecordError(@, e),
                                !.fails = @ + 1, !.lastFail = e]
    IN  IF exit_stack # NONE
        THEN /\ connection_attempts' = att
             /\ exit_stack' = exit_stack
             /\ session' = s
             /\ pc' = [pc EXCEPT ![t] = "c_cleanup"]
             /\ frame' = [frame EXCEPT ![t] = [fr EXCEPT !.stk = exit_stack, !.sess = NONE]]
             /\ res' = [res EXCEPT ![t] = NoRes]
             /\ stacks' = Collect(st, Refs(exit_stack, s, frame'))
        ELSE RetryOrRaise(t, o, att, NONE, s, st, fr)

\* an __aexit__ that closes the session of the stack and leaves its transport
ExitStackKeepsTransport(st, id) == [st EXCEPT ![id] = @ \ {"session"}]

\* AsyncExitStack.__aexit__: every context entered in the stack is exited
ExitStack(st, id) == [st EXCEPT ![id] = EMPTY]

\* lines 47-51: connect() entered by caller t on behalf of method o
ConnectEntry(t, o) ==
    IF session # NONE
    THEN \* "Already connected to MCP server"
         /\ UNCHANGED <<connection_attempts, exit_stack, session, stacks>>
         /\ ConnectDone(t, o, TRUE, session, NoFrame)
    ELSE LoopHead(t, o, connection_attempts, exit_stack, session, stacks,
                  [NoFrame EXCEPT !.att0 = connection_attempts])

\* await self._exit_stack.enter_async_context(streamablehttp_client(...)) ends
TransportStep(t) ==
    /\ UNCHANGED <<alertVars, storeVars>>
    /\ pc[t] = "c_transport"
    /\ UNCHANGED <<cache, lastRet, op>>
    /\ \/ \* the transport is open; line 69 reads self._exit_stack again
          LET st == [stacks EXCEPT ![frame[t].stk] = @ \cup {"transport"}]
          IN  IF exit_stack = NONE
              THEN Failure(t, op[t], AttributeError, session, st)
              ELSE /\ UNCHANGED <<connection_attempts, exit_stack, session, res>>
                   /\ pc' = [pc EXCEPT ![t] = "c_session"]
                   /\ frame' = [frame EXCEPT ![t].stk = exit_stack]
                   /\ stacks' = Collect(st, Refs(exit_stack, session, frame'))
       \/ \E e \in Errors : Failure(t, op[t], e, session, stacks)

\* self.session = await self._exit_stack.enter_async_context(ClientSession(...))
SessionStep(t) ==
    /\ UNCHANGED <<alertVars, storeVars>>
    /\ pc[t] = "c_session"
    /\ UNCHANGED <<cache, lastRet, op>>
    /\ \/ /\ UNCHANGED <<connection_attempts, exit_stack, res>>
          /\ session' = frame[t].stk
          /\ pc' = [pc EXCEPT ![t] = "c_init"]
          /\ frame' = [frame EXCEPT ![t].sess = frame[t].stk]
          /\ stacks' = Collect([stacks EXCEPT ![frame[t].stk] = @ \cup {"session"}],
                               Refs(exit_stack, session', frame'))
       \/ \E e \in Errors : Failure(t, op[t], e, session, stacks)

\* await self.session.initialize() ends
InitStep(t) ==
    /\ UNCHANGED <<alertVars, storeVars>>
    /\ pc[t] = "c_init"
    /\ UNCHANGED <<cache, lastRet, op>>
    /\ \/ \* lines 76-78: the counter is reset and connect() returns
          /\ connection_attempts' = 0
          /\ UNCHANGED <<exit_stack, session>>
          /\ ConnectDone(t, op[t], TRUE, session,
                         [frame[t] EXCEPT !.stk = NONE, !.sess = NONE])
          /\ stacks' = Collect(stacks, Refs(exit_stack, session, frame'))
       \/ \E e \in Errors : Failure(t, op[t], e, session, stacks)

\* CleanupStep without line 99 (self.session = None)
CleanupStepKeepsSession(t) ==
    /\ UNCHANGED <<alertVars, storeVars>>
    /\ pc[t] = "c_cleanup"
    /\ UNCHANGED <<cache, lastRet, op>>
    /\ RetryOrRaise(t, op[t], connection_attempts, NONE, session,
                    ExitStack(stacks, frame[t].stk), frame[t])

\* lines 95-99: await self._exit_stack.__aexit__(None, None, None) ends; every
\* context of the stack has been exited whether or not one of them raised
\* (the bare except swallows it), then both fields are cleared
CleanupStep(t) ==
    /\ UNCHANGED <<alertVars, storeVars>>
    /\ pc[t] = "c_cleanup"
    /\ UNCHANGED <<cache, lastRet, op>>
    /\ RetryOrRaise(t, op[t], connection_attempts, NONE, NONE,
                    ExitStack(stacks, frame[t].stk), frame[t])

\* a caller calls connect()
Connect(t) ==
    /\ UNCHANGED <<alertVars, storeVars>>
    /\ pc[t] = "idle"
    /\ op' = [op EXCEPT ![t] = [NoOp EXCEPT !.type = "connect"]]
    /\ UNCHANGED <<cache, lastRet>>
    /\ ConnectEntry(t, op'[t])

(***************************************************************************)
(* MCPClient.ensure_connected and MCPClient.disconnect.                    *)
(***************************************************************************)
EnsureConnectedBody(t, o) ==
    IF session = NONE
    THEN ConnectEntry(t, o)
    ELSE /\ UNCHANGED <<connection_attempts, exit_stack, session, stacks>>
         /\ ConnectDone(t, o, TRUE, session, NoFrame)

EnsureConnected(t) ==
    /\ UNCHANGED <<alertVars, storeVars>>
    /\ pc[t] = "idle"
    /\ op' = [op EXCEPT ![t] = [NoOp EXCEPT !.type = "ensure_connected"]]
    /\ UNCHANGED <<cache, lastRet>>
    /\ EnsureConnectedBody(t, op'[t])

\* lines 108-111: up to the await of __aexit__
Disconnect(t) ==
    /\ UNCHANGED <<alertVars, storeVars>>
    /\ pc[t] = "idle"
    /\ op' = [op EXCEPT ![t] = [NoOp EXCEPT !.type = "disconnect"]]
    /\ UNCHANGED <<cache, lastRet, connection_attempts, exit_stack, session, stacks>>
    /\ IF exit_stack # NONE
       THEN /\ pc' = [pc EXCEPT ![t] = "d_exit"]
            /\ frame' = [frame EXCEPT ![t] = [NoFrame EXCEPT !.stk = exit_stack]]
            /\ res' = [res EXCEPT ![t] = NoRes]
       ELSE /\ pc' = pc
            /\ frame' = [frame EXCEPT ![t] = NoFrame]
            /\ res' = [res EXCEPT ![t] = Returned(NoVal)]

\* the three assignments after a successful __aexit__ (lines 112-114)
DisconnectReset ==
    /\ exit_stack' = NONE
    /\ session' = NONE
    /\ connection_attempts' = 0

\* lines 111-116: __aexit__ has run every exit callback of the stack; if one of
\* them raised, the exception skips lines 112-114 and is logged
DisconnectExit(t) ==
    /\ UNCHANGED <<alertVars, storeVars>>
    /\ pc[t] = "d_exit"
    /\ UNCHANGED <<cache, lastRet, op>>
    /\ pc' = [pc EXCEPT ![t] = "idle"]
    /\ frame' = [frame EXCEPT ![t] = NoFrame]
    /\ res' = [res EXCEPT ![t] = Returned(NoVal)]
    /\ \/ /\ DisconnectReset
          /\ stacks' = Collect(ExitStack(stacks, frame[t].stk),
                               Refs(exit_stack', session', frame'))
       \/ /\ stacks[frame[t].stk] # EMPTY
          /\ UNCHANGED <<exit_stack, session, connection_attempts>>
          /\ stacks' = Collect(ExitStack(stacks, frame[t].stk),
                               Refs(exit_stack, session, frame'))

(***************************************************************************)
(* MCPClient.invoke_tool and MCPClient.invalidate_cache.                   *)
(***************************************************************************)
\* invoke_tool without the lookup of lines 141-144
InvokeToolBodyNoLookup(t, o) == EnsureConnectedBody(t, o)

\* lines 138-150: the cache is consulted first; on a hit nothing else runs
InvokeToolBody(t, o) ==
    LET cached_result == CacheGet(cache, o.name, o.args)
    IN  IF cached_result # NoVal
        THEN /\ UNCHANGED <<connection_attempts, exit_stack, session, stacks, pc>>
             /\ frame' = [frame EXCEPT ![t] = NoFrame]
             /\ res' = [res EXCEPT ![t] = Returned(cached_result)]
        ELSE EnsureConnectedBody(t, o)

InvokeTool(t, name, args) ==
    /\ UNCHANGED <<alertVars, storeVars>>
    /\ pc[t] = "idle"
    /\ op' = [op EXCEPT ![t] = [type |-> "invoke", name |-> name, args |-> args]]
    /\ UNCHANGED <<cache, lastRet>>
    /\ InvokeToolBody(t, op'[t])

\* the session the call was issued on still has its context entered
SessionAlive(t) == frame[t].sess # NONE /\ "session" \in stacks[frame[t].sess]

\* lines 152-158: the response carries content
StoreAndReturn(t, v) ==
    /\ cache' = CacheSet(cache, op[t].name, op[t].args, v)
    /\ lastRet' = [k \in RawKeys |->
                     IF k = <<op[t].name, op[t].args>> THEN v
                     ELSE IF k[1] = op[t].name /\ SameMapping(k[2], op[t].args) THEN NoVal
                     ELSE lastRet[k]]
    /\ res' = [res EXCEPT ![t] = Returned(v)]

\* invoke_tool that stores what the failed call left in the cache
CallToolCachesFailure(t) ==
    /\ UNCHANGED <<alertVars, storeVars>>
    /\ pc[t] = "i_call"
    /\ UNCHANGED <<op, connection_attempts, exit_stack, session, lastRet>>
    /\ pc' = [pc EXCEPT ![t] = "idle"]
    /\ frame' = [frame EXCEPT ![t] = NoFrame]
    /\ stacks' = Collect(stacks, Refs(exit_stack, session, frame'))
    /\ \E e \in Errors :
          /\ cache' = CacheSet(cache, op[t].name, op[t].args, e)
          /\ res' = [res EXCEPT ![t] = InvocationError(op[t].name, e)]

\* invoke_tool that stores the error value of a response without content
CallToolCachesNoContent(t) ==
    /\ UNCHANGED <<alertVars, storeVars>>
    /\ pc[t] = "i_call"
    /\ UNCHANGED <<op, connection_attempts, exit_stack, session>>
    /\ pc' = [pc EXCEPT ![t] = "idle"]
    /\ frame' = [frame EXCEPT ![t] = NoFrame]
    /\ stacks' = Collect(stacks, Refs(exit_stack, session, frame'))
    /\ \/ /\ SessionAlive(t)
          /\ \E v \in Contents : StoreAndReturn(t, v)
       \/ /\ SessionAlive(t)
          /\ cache' = CacheSet(cache, op[t].name, op[t].args, "error")
          /\ UNCHANGED lastRet
          /\ res' = [res EXCEPT ![t] = NoResponse(op[t].name)]
       \/ /\ UNCHANGED <<cache, lastRet>>
          /\ \E e \in Errors : res' = [res EXCEPT ![t] = InvocationError(op[t].name, e)]

\* await self.session.call_tool(name=name, arguments=arguments) ends
CallTool(t) ==
    /\ UNCHANGED <<alertVars, storeVars>>
    /\ pc[t] = "i_call"
    /\ UNCHANGED <<op, connection_attempts, exit_stack, session>>
    /\ pc' = [pc EXCEPT ![t] = "idle"]
    /\ frame' = [frame EXCEPT ![t] = NoFrame]
    /\ stacks' = Collect(stacks, Refs(exit_stack, session, frame'))
    /\ \/ /\ SessionAlive(t)
          /\ \E v \in Contents : StoreAndReturn(t, v)
       \/ \* lines 159-161: no content
          /\ SessionAlive(t)
          /\ UNCHANGED <<cache, lastRet>>
          /\ res' = [res EXCEPT ![t] = NoResponse(op[t].name)]
       \/ \* lines 163-168
          /\ UNCHANGED <<cache, lastRet>>
          /\ \E e \in Errors : res' = [res EXCEPT ![t] = InvocationError(op[t].name, e)]

\* invalidate_cache that does nothing when arguments is None
InvalidateCacheExactOnly(t, name, optargs) ==
    /\ UNCHANGED <<alertVars, storeVars>>
    /\ pc[t] = "idle"
    /\ op' = [op EXCEPT ![t] = [type |-> "invalidate", name |-> name,
                                 args |-> IF optargs = <<>> THEN <<>> ELSE optargs[1]]]
    /\ cache' = IF optargs = <<>> THEN cache ELSE CacheInvalidate(cache, name, optargs)
    /\ UNCHANGED lastRet
    /\ res' = [res EXCEPT ![t] = Returned(NoVal)]
    /\ UNCHANGED <<connection_attempts, exit_stack, session, stacks, pc, frame>>

\* lines 180-181
InvalidateCache(t, name, optargs) ==
    /\ UNCHANGED <<alertVars, storeVars>>
    /\ pc[t] = "idle"
    /\ op' = [op EXCEPT ![t] = [type |-> "invalidate", name |-> name,
                                 args |-> IF optargs = <<>> THEN <<>> ELSE optargs[1]]]
    /\ cache' = CacheInvalidate(cache, name, optargs)
    /\ lastRet' = [k \in RawKeys |->
                     IF k[1] = name /\ (optargs = <<>> \/ SameMapping(k[2], optargs[1]))
                     THEN NoVal ELSE lastRet[k]]
    /\ res' = [res EXCEPT ![t] = Returned(NoVal)]
    /\ frame' = [u \in DOMAIN frame |->
                   IF /\ pc[u] = "i_call"
                      /\ op[u].name = name
                      /\ optargs = <<>> \/ SameMapping(op[u].args, optargs[1])
                   THEN [frame[u] EXCEPT !.overtaken = TRUE]
                   ELSE frame[u]]
    /\ UNCHANGED <<connection_attempts, exit_stack, session, stacks, pc>>

(***************************************************************************)
(* The connection manager used by one caller at a time.                    *)
(***************************************************************************)
ConnNext ==
    \E t \in Callers :
        \/ Connect(t)
        \/ TransportStep(t)
        \/ SessionStep(t)
        \/ InitStep(t)
        \/ CleanupStep(t)
        \/ EnsureConnected(t)
        \/ Disconnect(t)
        \/ DisconnectExit(t)
        \/ \E name \in ToolNames, args \in ArgDicts : InvokeTool(t, name, args)
        \/ CallTool(t)
        \/ \E name \in ToolNames, optargs \in OptArgs : InvalidateCache(t, name, optargs)

(***************************************************************************)
(* Strings.  A text is a sequence of pieces.  Texts that the code inspects *)
(* (severities, the engine's message) are written one character per piece; *)
(* literals the code only copies are a single piece.                       *)
(***************************************************************************)
UpperAlphabet == <<"A", "B", "C", "D", "E", "F", "G", "H", "I", "J", "K", "L", "M",
                   "N", "O", "P", "Q", "R", "S", "T", "U", "V", "W", "X", "Y", "Z">>

LowerAlphabet == <<"a", "b", "c", "d", "e", "f", "g", "h", "i", "j", "k", "l", "m",
                   "n", "o", "p", "q", "r", "s", "t", "u", "v", "w", "x", "y", "z">>

LowerChar(c) ==
    IF \E i \in DOMAIN UpperAlphabet : UpperAlphabet[i] = c
    THEN LowerAlphabet[CHOOSE i \in DOMAIN UpperAlphabet : UpperAlphabet[i] = c]
    ELSE c

UpperChar(c) ==
    IF \E i \in DOMAIN LowerAlphabet : LowerAlphabet[i] = c
    THEN UpperAlphabet[CHOOSE i \in DOMAIN LowerAlphabet : LowerAlphabet[i] = c]
    ELSE c

\* str.lower(), str.upper()
Lower(s) == [i \in DOMAIN s |-> LowerChar(s[i])]

Upper(s) == [i \in DOMAIN s |-> UpperChar(s[i])]

\* sub in s
Contains(s, sub) ==
    \E i \in 0..(Len(s) - Len(sub)) : SubSeq(s, i + 1, i + Len(sub)) = sub

\* s.startswith(p)
StartsWith(s, p) == Len(s) >= Len(p) /\ SubSeq(s, 1, Len(p)) = p

Whitespace == {" ", "\t"}

RECURSIVE LStripSet(_, _)
\* s.lstrip(chars)
LStripSet(s, chars) ==
    IF s # <<>> /\ Head(s) \in chars THEN LStripSet(Tail(s), chars) ELSE s

RECURSIVE RStripSet(_, _)
RStripSet(s, chars) ==
    IF s # <<>> /\ s[Len(s)] \in chars THEN RStripSet(SubSeq(s, 1, Len(s) - 1), chars) ELSE s

\* s.strip()
Strip(s) == RStripSet(LStripSet(s, Whitespace), Whitespace)

Digits == {"0", "1", "2", "3", "4", "5", "6", "7", "8", "9"}

RECURSIVE Join(_, _)
\* sep.join(parts)
Join(sep, parts) ==
    IF parts = <<>> THEN <<>>
    ELSE IF Len(parts) = 1 THEN parts[1]
    ELSE parts[1] \o sep \o Join(sep, Tail(parts))

\* seq[:n]
Take(seq, n) == SubSeq(seq, 1, IF Len(seq) < n THEN Len(seq) ELSE n)

\* dict.get(key, default) on a value that may be ABSENT
ABSENT == <<"<absent>">>

Get(v, default) == IF v = ABSENT THEN default ELSE v

s_critical == <<"c", "r", "i", "t", "i", "c", "a", "l">>

s_high == <<"h", "i", "g", "h">>

s_warning == <<"w", "a", "r", "n", "i", "n", "g">>

s_info == <<"i", "n", "f", "o">>

s_unknown == <<"u", "n", "k", "n", "o", "w", "n">>

(***************************************************************************)
(* Parsing of the engine's free text (alerts.py lines 423-494).  A message *)
(* is held as the list of its lines, text.split('\n').                     *)
(***************************************************************************)
RECURSIVE SectionLines(_, _, _, _, _)
\* the loop of extract_section from line i on
SectionLines(lines, section_name, i, in_section, section_lines) ==
    IF i > Len(lines) THEN section_lines
    ELSE LET line == lines[i]
         IN  IF /\ Contains(Lower(line), Lower(section_name))
                /\ \/ Contains(line, <<":", "*", "*">>)
                   \/ Contains(line, <<"#", "#", "#">>)
                   \/ Contains(line, <<"*", "*">>)
             THEN SectionLines(lines, section_name, i + 1, TRUE, section_lines)
             ELSE IF /\ in_section
                     /\ \/ StartsWith(line, <<"*", "*">>)
                        \/ StartsWith(line, <<"#", "#", "#">>)
                        \/ Strip(line) = <<>>
             THEN IF section_lines # <<>>
                  THEN section_lines
                  ELSE SectionLines(lines, section_name, i + 1, in_section, section_lines)
             ELSE IF in_section
             THEN SectionLines(lines, section_name, i + 1, in_section,
                               Append(section_lines, Strip(line)))
             ELSE SectionLines(lines, section_name, i + 1, in_section, section_lines)

extract_section(text, section_name) ==
    LET section_lines == SectionLines(text, section_name, 1, FALSE, <<>>)
    IN  IF section_lines # <<>>
        THEN Join(<<" ">>, section_lines)
        ELSE <<"See full investigation for ">> \o section_name

BulletChars == {"-", "*", ".", " "} \cup Digits

RECURSIVE ActionLines(_, _, _, _)
\* the loop of extract_actions from line i on
ActionLines(lines, i, in_actions, actions) ==
    IF i > Len(lines) THEN actions
    ELSE LET line == lines[i]
             stripped == Strip(line)
         IN  IF /\ Contains(Lower(line), <<"r", "e", "c", "o", "m", "m", "e", "n", "d", "e", "d">>)
                /\ Contains(Lower(line), <<"a", "c", "t", "i", "o", "n">>)
             THEN ActionLines(lines, i + 1, TRUE, actions)
             ELSE IF ~in_actions
             THEN ActionLines(lines, i + 1, in_actions, actions)
             ELSE IF /\ stripped # <<>>
                     /\ \/ StartsWith(stripped, <<"-">>)
                        \/ StartsWith(stripped, <<"*">>)
                        \/ stripped[1] \in Digits
             THEN LET action == LStripSet(stripped, BulletChars)
                  IN  ActionLines(lines, i + 1, in_actions,
                                  IF action # <<>> THEN Append(actions, action) ELSE actions)
             ELSE IF stripped # <<>> /\ ~StartsWith(stripped, <<"*", "*">>)
             THEN ActionLines(lines, i + 1, in_actions, Append(actions, stripped))
             ELSE IF \/ StartsWith(stripped, <<"*", "*">>)
                     \/ StartsWith(stripped, <<"#", "#", "#">>)
             THEN actions
             ELSE ActionLines(lines, i + 1, in_actions, actions)

DefaultActions ==
    << <<"Review alert in Grafana">>, <<"Check service logs">>, <<"Escalate if needed">> >>

extract_actions(text) ==
    LET actions == ActionLines(text, 1, FALSE, <<>>)
    IN  IF actions # <<>> THEN Take(actions, 5) ELSE DefaultActions

EvidenceKeywords ==
    { <<"m", "e", "t", "r", "i", "c">>,
      <<"l", "o", "g">>,
      <<"d", "a", "s", "h", "b", "o", "a", "r", "d">>,
      <<"q", "u", "e", "r", "y">>,
      <<"v", "a", "l", "u", "e">>,
      <<"e", "r", "r", "o", "r">> }

IsEvidence(line) ==
    /\ \E keyword \in EvidenceKeywords : Contains(Lower(line), keyword)
    /\ Contains(line, <<":">>)
    /\ ~StartsWith(line, <<"#">>)

RECURSIVE EvidenceLines(_, _)
EvidenceLines(lines, i) ==
    IF i > Len(lines) THEN <<>>
    ELSE (IF IsEvidence(lines[i]) THEN <<Strip(lines[i])>> ELSE <<>>)
         \o EvidenceLines(lines, i + 1)

DefaultEvidence == << <<"See investigation details above">> >>

\* extract_evidence without the [:10] of line 483
extract_evidence_uncapped(text) ==
    LET evidence == EvidenceLines(text, 1)
    IN  IF evidence # <<>> THEN evidence ELSE DefaultEvidence

extract_evidence(text) ==
    LET evidence == EvidenceLines(text, 1)
    IN  IF evidence # <<>> THEN Take(evidence, 10) ELSE DefaultEvidence

RECURSIVE SumLen(_)
SumLen(lines) == IF lines = <<>> THEN 0 ELSE Len(Head(lines)) + SumLen(Tail(lines))

\* len(message) of the text whose lines these are
MessageLength(lines) == SumLen(lines) + Len(lines) - 1

Min(a, b) == IF a <= b THEN a ELSE b

\* round(confidence, 2) when the exact sum lies half way between two
\* hundredths.  0.15 and message_length / 2000 are binary64 values, so the sum
\* line 493 computes lies just below or just above the half (or on it: 0.125,
\* where round() goes to the even hundredth).  Per tool_calls 0..5, the
\* message_length / 10 at which round() goes up; at every other tie (and
\* there is none from 7 tool calls or 800 characters on) it goes down.
TiesRoundedUp ==
    << {1, 5, 7, 11, 13, 17, 19, 23, 27, 33, 39, 45, 51, 53, 55, 63, 65, 67, 75, 77, 79},
       {9, 21, 23, 25, 27, 33, 45, 47, 49, 51, 53, 55, 71, 73, 75, 77, 79},
       {3, 5, 15, 17, 19, 41, 43, 45, 67, 69, 71, 73, 75, 77, 79},
       {11, 37, 39},
       {7, 9, 11, 13, 31, 33, 55, 57, 59, 61, 63, 65, 67},
       {1, 3, 5, 7, 9, 11, 25, 27, 29, 31, 33, 35, 37, 39} >>

RoundsUp(tool_calls, message_length) ==
    /\ tool_calls + 1 \in DOMAIN TiesRoundedUp
    /\ message_length % 10 = 0
    /\ (message_length \div 10) \in TiesRoundedUp[tool_calls + 1]

\* a score that drops the digits after the second decimal
calculate_confidence_truncated(tool_calls, message_length) ==
    Min(2000, tool_calls * 300 + Min(800, message_length)) \div 20

\* calculate_confidence, in hundredths.  The sum is held in units of 1/2000
\* (0.15 is 300, 0.4 is 800, 1.0 is 2000); round(_, 2) goes to the nearest
\* hundredth, and at a tie as RoundsUp says.
calculate_confidence(tool_calls, message_length) ==
    LET confidence == Min(2000, tool_calls * 300 + Min(800, message_length))
    IN  IF confidence % 20 = 10
        THEN confidence \div 20 + (IF RoundsUp(tool_calls, message_length) THEN 1 ELSE 0)
        ELSE (confidence + 10) \div 20

\* what the reasoning engine may answer
WellFormedMessage ==
    << <<"*", "*", "R", "o", "o", "t", " ", "C", "a", "u", "s", "e", ":", "*", "*">>,
       <<"d", "i", "s", "k", " ", "i", "s", " ", "f", "u", "l", "l">>,
       <<>>,
       <<"*", "*", "I", "m", "p", "a", "c", "t", ":", "*", "*">>,
       <<"a", "p", "i", " ", "d", "o", "w", "n">>,
       <<>>,
       <<"*", "*", "R", "e", "c", "o", "m", "m", "e", "n", "d", "e", "d", " ", "A", "c", "t", "i", "o", "n", "s", ":", "*", "*">>,
       <<"-", " ", "f", "r", "e", "e", " ", "d", "i", "s", "k">>,
       <<"2", ".", " ", "r", "e", "s", "t", "a", "r", "t">>,
       <<>>,
       <<"*", "*", "E", "v", "i", "d", "e", "n", "c", "e", ":", "*", "*">>,
       <<"l", "o", "g", ":", " ", "n", "o", " ", "s", "p", "a", "c", "e">> >>

EmptyMessage == << <<>> >>

\* lines an answer of the engine is made of: the four section headers (one
\* written as a ### heading), a plain line, a blank line
SampleLines ==
    { <<"*", "*", "R", "o", "o", "t", " ", "C", "a", "u", "s", "e", ":", "*", "*">>,
      <<"*", "*", "I", "m", "p", "a", "c", "t", ":", "*", "*">>,
      <<"*", "*", "R", "e", "c", "o", "m", "m", "e", "n", "d", "e", "d", " ", "A", "c", "t", "i", "o", "n", "s", ":", "*", "*">>,
      <<"#", "#", "#", " ", "E", "v", "i", "d", "e", "n", "c", "e">>,
      <<"d", "i", "s", "k", " ", "i", "s", " ", "f", "u", "l", "l">>,
      <<>> }

\* lines of a short answer
MaxLines == 4

ShortMessages == UNION {[1..n -> SampleLines] : n \in 1..MaxLines}

\* an answer with more actions than are kept
ManyActions ==
    << <<"*", "*", "R", "e", "c", "o", "m", "m", "e", "n", "d", "e", "d", " ", "A", "c", "t", "i", "o", "n", "s", ":", "*", "*">> >>
    \o [i \in 1..7 |-> <<"-", " ", "f", "r", "e", "e", " ", "d", "i", "s", "k">>]

\* an answer with more evidence lines than are kept
ManyEvidence ==
    [i \in 1..12 |-> <<"l", "o", "g", ":", " ", "n", "o", " ", "s", "p", "a", "c", "e">>]

(***************************************************************************)
(* The alert pipeline (sm3_agent/backend/api/alerts.py).                   *)
(***************************************************************************)
\* webhook requests received in a run
MaxRequests == 2

\* alerts in one payload
MaxAlerts == 2

\* seconds the wall clock may advance
MaxClock == 1

firing == <<"firing">>

\* alerts a payload may carry: labels (severity, alertname) and annotations
\* (description, summary), each possibly absent
SampleAlerts ==
    { [fingerprint |-> <<"fp1">>, severity |-> s_critical, alertname |-> <<"HighCPU">>,
       description |-> <<"cpu above 90%">>, summary |-> ABSENT],
      [fingerprint |-> <<"fp2">>, severity |-> <<"H", "i", "g", "h">>, alertname |-> ABSENT,
       description |-> ABSENT, summary |-> <<"disk">>],
      [fingerprint |-> <<"fp3">>, severity |-> <<"W", "A", "R", "N", "I", "N", "G">>, alertname |-> <<"Lag">>,
       description |-> ABSENT, summary |-> ABSENT],
      [fingerprint |-> <<"fp4">>, severity |-> ABSENT, alertname |-> <<"Ping">>,
       description |-> ABSENT, summary |-> ABSENT] }

AlertLists == UNION {[1..n -> SampleAlerts] : n \in 0..MaxAlerts}

Payloads == [status : {firing, <<"resolved">>}, alerts : AlertLists]

\* the engine's result: message None stands for a result that is no text
NoMessage == << <<"<None>">> >>

EngineMessages == {WellFormedMessage, EmptyMessage}

AgentResults == [message : {WellFormedMessage, NoMessage}, tool_calls : {3}]

\* strftime('%Y%m%d%H%M%S')
TimeStamp(t) == <<"t", t>>

TicketNumber(t) == <<"INC">> \o TimeStamp(t)

TicketNumbers == {TicketNumber(t) : t \in 0..(MaxClock + 1)}

FileNames == {n \o <<ext>> : n \in TicketNumbers, ext \in {".json", ".txt"}}

NoFile == <<>>

AlertInit ==
    /\ requests = <<>>
    /\ responses = <<>>
    /\ background = <<>>
    /\ running = <<>>
    /\ finished = <<>>
    /\ last = <<>>
    /\ tickets_dir = [f \in FileNames |-> NoFile]
    /\ now = 0

(***************************************************************************)
(* grafana_webhook (lines 112-159).                                        *)
(***************************************************************************)
\* line 126 without the test
IsFiringAlways(payload) == TRUE

\* line 126
IsFiring(payload) == payload.status = firing

\* line 134 without .lower()
WebhookSeverityAsSent(alert) == Get(alert.severity, s_info)

\* line 134: alert.labels.get("severity", "info").lower()
WebhookSeverity(alert) == Lower(Get(alert.severity, s_info))

\* line 137
IsMajor(severity) == severity \in {s_critical, s_high}

\* lines 149-153
Acknowledgement(alert, severity) ==
    [fingerprint |-> alert.fingerprint, severity |-> severity,
     status |-> <<"queued_for_investigation">>]

RECURSIVE WebhookLoop(_, _, _, _)
\* lines 131-153: the loop from alert i on; tasks are the alerts given to
\* background_tasks.add_task so far
WebhookLoop(alerts, i, processed, tasks) ==
    IF i > Len(alerts) THEN [processed |-> processed, tasks |-> tasks]
    ELSE LET severity == WebhookSeverity(alerts[i])
         IN  IF ~IsMajor(severity)
             THEN WebhookLoop(alerts, i + 1, processed, tasks)
             ELSE WebhookLoop(alerts, i + 1,
                              Append(processed, Acknowledgement(alerts[i], severity)),
                              Append(tasks, alerts[i]))

\* line 128
IgnoredResponse(payload) ==
    [status |-> <<"ignored">>,
     reason |-> <<"Alert status is ">> \o payload.status]

\* lines 155-159
ReceivedResponse(processed) ==
    [status |-> <<"received">>, processed_count |-> Len(processed), alerts |-> processed]

\* a handler that awaits process_alert itself: its response is not produced
\* when the tasks are handed over
GrafanaWebhookAwaits(payload) ==
    /\ Len(requests) < MaxRequests
    /\ requests' = Append(requests, payload)
    /\ running' = Append(running, "idle")
    /\ finished' = Append(finished, 0)
    /\ background' = Append(background, WebhookLoop(payload.alerts, 1, <<>>, <<>>).tasks)
    /\ UNCHANGED <<responses, last, tickets_dir, now>>
    /\ UNCHANGED <<connVars, storeVars>>

\* the handler runs without awaiting anything; what it added to
\* background_tasks runs after its response
GrafanaWebhook(payload) ==
    /\ Len(requests) < MaxRequests
    /\ requests' = Append(requests, payload)
    /\ running' = Append(running, "idle")
    /\ finished' = Append(finished, 0)
    /\ UNCHANGED <<last, tickets_dir, now>>
    /\ UNCHANGED <<connVars, storeVars>>
    /\ IF ~IsFiring(payload)
       THEN /\ responses' = Append(responses, IgnoredResponse(payload))
            /\ background' = Append(background, <<>>)
       ELSE LET out == WebhookLoop(payload.alerts, 1, <<>>, <<>>)
            IN  /\ responses' = Append(responses, ReceivedResponse(out.processed))
                /\ background' = Append(background, out.tasks)

(***************************************************************************)
(* investigate_alert_with_ai (lines 210-311).                              *)
(***************************************************************************)
\* lines 176-181 of process_alert
AlertName(alert) == Get(alert.alertname, <<"Unknown Alert">>)

AlertSeverity(alert) == Lower(Get(alert.severity, s_unknown))

AlertDescription(alert) == Get(alert.description, <<"No description">>)

AlertSummary(alert) == Get(alert.summary, AlertName(alert))

FallbackHypothesis == <<"AI investigation failed - manual investigation required">>

FallbackActions ==
    << <<"Check Grafana dashboard">>, <<"Review recent deployments">>,
       <<"Check service logs">> >>

FallbackEvidence == << <<"AI investigation unavailable">> >>

\* a fallback whose impact is built from the summary
FallbackInvestigationFromSummary(alert, t) ==
    [alert_name |-> AlertName(alert),
     severity |-> AlertSeverity(alert),
     summary |-> AlertSummary(alert),
     root_cause_hypothesis |-> FallbackHypothesis,
     impact_assessment |-> <<"Alert triggered: ">> \o AlertSummary(alert),
     recommended_actions |-> FallbackActions,
     related_evidence |-> FallbackEvidence,
     confidence |-> 0,
     investigated_at |-> t]

\* lines 301-311
FallbackInvestigation(alert, t) ==
    [alert_name |-> AlertName(alert),
     severity |-> AlertSeverity(alert),
     summary |-> AlertSummary(alert),
     root_cause_hypothesis |-> FallbackHypothesis,
     impact_assessment |-> <<"Alert triggered: ">> \o AlertDescription(alert),
     recommended_actions |-> FallbackActions,
     related_evidence |-> FallbackEvidence,
     confidence |-> 0,
     investigated_at |-> t]

\* lines 286-289: the four extractions of a text
Extract(message) ==
    [root_cause_hypothesis |->
        extract_section(message, <<"R", "o", "o", "t", " ", "C", "a", "u", "s", "e">>),
     impact_assessment |-> extract_section(message, <<"I", "m", "p", "a", "c", "t">>),
     recommended_actions |-> extract_actions(message),
     related_evidence |-> extract_evidence(message),
     message_length |-> MessageLength(message)]

\* the same, worked out once for the texts the pipeline's engine answers
Extracted == [message \in EngineMessages |-> Extract(message)]

\* lines 282-292
ParsedInvestigation(alert, result, t) ==
    LET extracted == IF result.message \in EngineMessages
                     THEN Extracted[result.message]
                     ELSE Extract(result.message)
    IN  [alert_name |-> AlertName(alert),
         severity |-> AlertSeverity(alert),
         summary |-> AlertSummary(alert),
         root_cause_hypothesis |-> extracted.root_cause_hypothesis,
         impact_assessment |-> extracted.impact_assessment,
         recommended_actions |-> extracted.recommended_actions,
         related_evidence |-> extracted.related_evidence,
         confidence |-> calculate_confidence(result.tool_calls, extracted.message_length),
         investigated_at |-> t]

\* what investigate_alert_with_ai hands back to process_alert
InvestigationReturned(inv) == [raised |-> FALSE, investigation |-> inv]

InvestigationRaised == [raised |-> TRUE, investigation |-> <<>>]

\* an except clause that lets the failure out
OnEngineFailureRaises(alert, t) == InvestigationRaised

\* lines 297-311: except Exception builds and returns the fallback
OnEngineFailure(alert, t) == InvestigationReturned(FallbackInvestigation(alert, t))

\* lines 274-295, inside the try: text.split on a message that is no text raises
OnEngineResult(alert, result, t) ==
    IF result.message = NoMessage
    THEN OnEngineFailure(alert, t)
    ELSE InvestigationReturned(ParsedInvestigation(alert, result, t))

(***************************************************************************)
(* create_servicenow_ticket (lines 314-357) and the formatters.            *)
(***************************************************************************)
\* a mapping without its "warning" entry
PriorityWithoutWarning(severity) ==
    CASE severity = s_critical -> "P1"
      [] severity = s_high -> "P2"
      [] OTHER -> "P4"

\* SEVERITY_MAPPING.get(severity, SEVERITY_MAPPING["info"])["priority"]
Priority(severity) ==
    CASE severity = s_critical -> "P1"
      [] severity = s_high -> "P2"
      [] severity = s_warning -> "P3"
      [] OTHER -> "P4"

\* lines 360-387
format_ticket_description(investigation) ==
    [alert |-> investigation.alert_name,
     severity |-> Upper(investigation.severity),
     summary |-> investigation.summary,
     investigated |-> TimeStamp(investigation.investigated_at),
     confidence |-> investigation.confidence,
     root_cause_hypothesis |-> investigation.root_cause_hypothesis,
     impact_assessment |-> investigation.impact_assessment,
     actions |-> [i \in DOMAIN investigation.recommended_actions |->
                     <<"  ", i, ". ">> \o investigation.recommended_actions[i]],
     evidence |-> [i \in DOMAIN investigation.related_evidence |->
                     <<"  - ">> \o investigation.related_evidence[i]]]

\* lines 335-342
Ticket(investigation, severity, t) ==
    [ticket_number |-> TicketNumber(t),
     priority |-> Priority(severity),
     short_description |-> <<"[">> \o Upper(severity) \o <<"] ">> \o investigation.alert_name,
     description |-> format_ticket_description(investigation),
     assignment_group |-> "platform-ops",
     category |-> "Infrastructure",
     state |-> "New",
     created_at |-> t,
     ai_generated |-> TRUE,
     investigation_summary |-> investigation.root_cause_hypothesis]

\* str(datetime): what default=str makes of created_at
DateStr(t) == <<"str", t>>

\* the document json.dumps(ticket.dict(), indent=2, default=str) writes: the
\* fields of the ticket, created_at as text
JsonDoc(ticket) == [ticket EXCEPT !.created_at = DateStr(@)]

JsonFile(ticket) == <<"json", JsonDoc(ticket)>>

\* json.loads(ticket_file.read_text())
json_loads(file) == file[2]

\* lines 390-420
format_ticket_text(ticket) ==
    <<"text", ticket.ticket_number, ticket.priority, ticket.state,
      TimeStamp(ticket.created_at), ticket.assignment_group, ticket.category,
      ticket.short_description, ticket.description>>

\* lines 345-353: the two writes; written is how many of them succeed before
\* one raises (2: none raises)
WriteTicket(dir, ticket, written) ==
    [f \in FileNames |->
        IF written >= 1 /\ f = ticket.ticket_number \o <<".json">> THEN JsonFile(ticket)
        ELSE IF written >= 2 /\ f = ticket.ticket_number \o <<".txt">>
        THEN format_ticket_text(ticket)
        ELSE dir[f]]

(***************************************************************************)
(* process_alert (lines 162-207), run as a background task.  The tasks of  *)
(* one request run one after the other, in the order they were added;      *)
(* those of different requests interleave at their awaits.                 *)
(***************************************************************************)
\* the alert whose task request r is running or will run next
CurrentAlert(r) == background[r][finished[r] + 1]

HasTask(r) == r \in DOMAIN requests /\ finished[r] < Len(background[r])

\* process_alert without its except clause: the failure reaches the runner,
\* which gives up the request's remaining tasks
TaskBoundaryPropagates(raised) == IF raised THEN "aborted" ELSE "idle"

\* lines 206-207: except Exception logs; process_alert itself returns, so the
\* runner of the request's tasks goes on to the next one
TaskBoundary(raised) == "idle"

\* what is recorded of a finished task: the path the engine took, what
\* investigate_alert_with_ai handed back, and the ticket written
TaskResult(r, alert, engine, investigated, made, written) ==
    [request |-> r,
     alert |-> alert,
     engine |-> engine,
     investigated |-> investigated,
     ticket |-> made,
     written |-> written,
     raised |-> investigated.raised \/ written < 2]

\* lines 197-207: the rest of process_alert once the investigation is back;
\* nothing in it awaits, so it runs in the same step. Line 197 is not reached
\* when the investigation raised: no ticket is made
FinishTask(r, engine, investigated) ==
    /\ UNCHANGED <<requests, responses, background, now>>
    /\ UNCHANGED <<connVars, storeVars>>
    /\ \E alert \in {CurrentAlert(r)}, inv \in {investigated} :
       \E made \in {IF inv.raised THEN <<>>
                    ELSE <<Ticket(inv.investigation, AlertSeverity(alert), now)>>} :
       \E written \in IF made = <<>> THEN {0} ELSE {0, 1, 2} :
       \E result \in {TaskResult(r, alert, engine, inv, made, written)} :
          /\ finished' = [finished EXCEPT ![r] = @ + 1]
          /\ last' = <<result>>
          /\ running' = [running EXCEPT ![r] = TaskBoundary(result.raised)]
          /\ tickets_dir' = IF made = <<>> THEN tickets_dir
                            ELSE WriteTicket(tickets_dir, made[1], written)

\* lines 172-195 and 222-265: up to await agent_manager.initialize(); building
\* the settings or the AgentManager may raise
StartTask(r) ==
    /\ HasTask(r)
    /\ running[r] = "idle"
    /\ \/ /\ running' = [running EXCEPT ![r] = "initialize"]
          /\ UNCHANGED <<requests, responses, background, finished, last, tickets_dir, now>>
          /\ UNCHANGED <<connVars, storeVars>>
       \/ FinishTask(r, "raised", OnEngineFailure(CurrentAlert(r), now))

\* await agent_manager.initialize() ends; lines 268-272 up to await run_chat
InitializeDone(r) ==
    /\ HasTask(r)
    /\ running[r] = "initialize"
    /\ \/ /\ running' = [running EXCEPT ![r] = "run_chat"]
          /\ UNCHANGED <<requests, responses, background, finished, last, tickets_dir, now>>
          /\ UNCHANGED <<connVars, storeVars>>
       \/ FinishTask(r, "raised", OnEngineFailure(CurrentAlert(r), now))

\* await agent_manager.run_chat(...) ends
RunChatDone(r) ==
    /\ HasTask(r)
    /\ running[r] = "run_chat"
    /\ \/ \E result \in AgentResults :
             FinishTask(r, IF result.message = NoMessage THEN "raised" ELSE "returned",
                        OnEngineResult(CurrentAlert(r), result, now))
       \/ FinishTask(r, "raised", OnEngineFailure(CurrentAlert(r), now))

\* a second passes
Tick ==
    /\ now < MaxClock
    /\ now' = now + 1
    /\ UNCHANGED <<requests, responses, background, running, finished, last, tickets_dir>>
    /\ UNCHANGED <<connVars, storeVars>>

AlertNext ==
    \/ \E payload \in Payloads : GrafanaWebhook(payload)
    \/ \E r \in 1..MaxRequests : StartTask(r)
    \/ \E r \in 1..MaxRequests : InitializeDone(r)
    \/ \E r \in 1..MaxRequests : RunChatDone(r)
    \/ Tick

(***************************************************************************)
(* The ticket endpoints (lines 498-540) and create_servicenow_ticket       *)
(* (lines 314-357) called directly.                                        *)
(***************************************************************************)
MaxCreates == 2

MaxLimit == 2

\* severities create_servicenow_ticket is called with
StoreSeverities ==
    {s_critical, s_high, s_warning, s_info, s_unknown, <<>>,
     <<"C", "R", "I", "T", "I", "C", "A", "L">>}

\* the investigation handed to it
StoreInvestigation(severity, t) ==
    [FallbackInvestigation(CHOOSE a \in SampleAlerts : a.fingerprint = <<"fp1">>, t)
        EXCEPT !.severity = severity]

\* lines 314-357: nothing in create_servicenow_ticket awaits; a write that
\* raises ends it without a ticket returned
CreateTicket(severity) ==
    /\ Len(creates) < MaxCreates
    /\ \E ticket \in {Ticket(StoreInvestigation(severity, now), severity, now)} :
       \E written \in {0, 1, 2} :
          /\ tickets_dir' = WriteTicket(tickets_dir, ticket, written)
          /\ creates' = IF written = 2 THEN Append(creates, ticket) ELSE creates
          /\ reply' = [op |-> "create", arg |-> severity,
                       raised |-> written < 2,
                       body |-> IF written = 2 THEN <<ticket>> ELSE <<>>]
    /\ UNCHANGED <<requests, responses, background, running, finished, last, now, scored, parsed>>
    /\ UNCHANGED connVars

RECURSIVE SortedJson(_, _)
\* sorted(TICKETS_DIR.glob("*.json"), reverse=True), from the second t down:
\* the names differ in their 14 digits only, so name order is time order
SortedJson(dir, t) ==
    IF t < 0 THEN <<>>
    ELSE (IF dir[TicketNumber(t) \o <<".json">>] # NoFile
          THEN <<TicketNumber(t) \o <<".json">> >> ELSE <<>>)
         \o SortedJson(dir, t - 1)

\* lines 505-517
ListTickets(limit) ==
    /\ \E files \in {Take(SortedJson(tickets_dir, MaxClock + 1), limit)} :
       \E tickets \in {[i \in DOMAIN files |-> json_loads(tickets_dir[files[i]])]} :
          reply' = [op |-> "list", arg |-> limit, raised |-> FALSE,
                    body |-> [count |-> Len(tickets), tickets |-> tickets]]
    /\ UNCHANGED <<creates, scored, parsed>>
    /\ UNCHANGED alertVars
    /\ UNCHANGED connVars

\* HTTPException(status_code=404, detail=f"Ticket {ticket_number} not found")
NotFound(ticket_number) ==
    [status_code |-> 404, detail |-> <<"Ticket ">> \o ticket_number \o <<" not found">>]

\* get_ticket that looks for the readable copy of the ticket
GetTicketChecksText(ticket_number) ==
    /\ \E ticket_file \in {ticket_number \o <<".json">>} :
          reply' = IF tickets_dir[ticket_number \o <<".txt">>] = NoFile
                   THEN [op |-> "get", arg |-> ticket_number, raised |-> TRUE,
                         body |-> NotFound(ticket_number)]
                   ELSE [op |-> "get", arg |-> ticket_number, raised |-> FALSE,
                         body |-> json_loads(tickets_dir[ticket_file])]
    /\ UNCHANGED <<creates, scored, parsed>>
    /\ UNCHANGED alertVars
    /\ UNCHANGED connVars

\* lines 523-529
GetTicket(ticket_number) ==
    /\ \E ticket_file \in {ticket_number \o <<".json">>} :
          reply' = IF tickets_dir[ticket_file] = NoFile
                   THEN [op |-> "get", arg |-> ticket_number, raised |-> TRUE,
                         body |-> NotFound(ticket_number)]
                   ELSE [op |-> "get", arg |-> ticket_number, raised |-> FALSE,
                         body |-> json_loads(tickets_dir[ticket_file])]
    /\ UNCHANGED <<creates, scored, parsed>>
    /\ UNCHANGED alertVars
    /\ UNCHANGED connVars

\* lines 535-540: every file of TICKETS_DIR is unlinked and counted
ClearTickets ==
    /\ reply' = [op |-> "clear", arg |-> <<>>, raised |-> FALSE,
                 body |-> [status |-> "cleared",
                           deleted |-> Cardinality({f \in FileNames : tickets_dir[f] # NoFile})]]
    /\ tickets_dir' = [f \in FileNames |-> NoFile]
    /\ creates' = <<>>
    /\ UNCHANGED <<requests, responses, background, running, finished, last, now, scored, parsed>>
    /\ UNCHANGED connVars

StoreNext ==
    \/ \E severity \in StoreSeverities : CreateTicket(severity)
    \/ \E limit \in 0..MaxLimit : ListTickets(limit)
    \/ \E ticket_number \in TicketNumbers : GetTicket(ticket_number)
    \/ ClearTickets
    \/ Tick

(***************************************************************************)
(* calculate_confidence (lines 486-494) applied to results of every size.  *)
(***************************************************************************)
MaxToolCalls == 7

MaxSteps == 200

ToolCallCounts == 0..MaxToolCalls

\* message lengths: every fifth one, which takes in every tie
MessageLengths == {5 * n : n \in 0..MaxSteps}

Score(tool_calls, message_length) ==
    /\ scored' = <<[tool_calls |-> tool_calls,
                    message_length |-> message_length,
                    confidence |-> calculate_confidence(tool_calls, message_length)]>>
    /\ UNCHANGED <<reply, creates, parsed>>
    /\ UNCHANGED alertVars
    /\ UNCHANGED connVars

ScoreNext ==
    \E tool_calls \in ToolCallCounts, message_length \in MessageLengths :
        Score(tool_calls, message_length)

(***************************************************************************)
(* investigate_alert_with_ai called directly (lines 261-311): the engine   *)
(* makes its tool calls, then answers line by line or with a whole text,   *)
(* and the answer is parsed; or the engine raises.                         *)
(***************************************************************************)
NoAnswer == [message |-> <<>>, tool_calls |-> 0, out |-> <<>>]

\* whole answers: the sectioned one, the long ones, one that is no text
WholeMessages == {WellFormedMessage, ManyActions, ManyEvidence, NoMessage}

\* alerts under investigation: with and without a description
InvestigatedAlerts == {a \in SampleAlerts : a.fingerprint \in {<<"fp1">>, <<"fp4">>}}

\* the engine records one more tool call (result.tool_calls)
ToolCalled ==
    /\ parsed.out = <<>>
    /\ parsed.message = <<>>
    /\ parsed.tool_calls < MaxToolCalls
    /\ parsed' = [parsed EXCEPT !.tool_calls = @ + 1]
    /\ UNCHANGED <<reply, creates, scored>>
    /\ UNCHANGED alertVars
    /\ UNCHANGED connVars

\* one more line of result.message
AnswerLine(line) ==
    /\ parsed.out = <<>>
    /\ parsed.message \notin WholeMessages
    /\ Len(parsed.message) < MaxLines
    /\ parsed' = [parsed EXCEPT !.message = Append(@, line)]
    /\ UNCHANGED <<reply, creates, scored>>
    /\ UNCHANGED alertVars
    /\ UNCHANGED connVars

\* result.message as a whole
AnswerWhole(message) ==
    /\ parsed.out = <<>>
    /\ parsed.message = <<>>
    /\ parsed' = [parsed EXCEPT !.message = message]
    /\ UNCHANGED <<reply, creates, scored>>
    /\ UNCHANGED alertVars
    /\ UNCHANGED connVars

\* lines 274-295: run_chat has returned and its result is parsed
Investigate(alert) ==
    /\ parsed.out = <<>>
    /\ parsed.message # <<>>
    /\ parsed' = [parsed EXCEPT !.out =
                     <<OnEngineResult(alert, [message |-> parsed.message,
                                              tool_calls |-> parsed.tool_calls], now)>>]
    /\ UNCHANGED <<reply, creates, scored>>
    /\ UNCHANGED alertVars
    /\ UNCHANGED connVars

\* lines 297-311: initialize() or run_chat() raised
InvestigateFails(alert) ==
    /\ parsed.out = <<>>
    /\ parsed.message = <<>>
    /\ parsed' = [parsed EXCEPT !.out = <<OnEngineFailure(alert, now)>>]
    /\ UNCHANGED <<reply, creates, scored>>
    /\ UNCHANGED alertVars
    /\ UNCHANGED connVars

\* the next call of investigate_alert_with_ai
NextInvestigation ==
    /\ parsed.out # <<>>
    /\ parsed' = NoAnswer
    /\ UNCHANGED <<reply, creates, scored>>
    /\ UNCHANGED alertVars
    /\ UNCHANGED connVars

ParseNext ==
    \/ ToolCalled
    \/ \E line \in SampleLines : AnswerLine(line)
    \/ \E message \in WholeMessages : AnswerWhole(message)
    \/ \E alert \in InvestigatedAlerts : Investigate(alert)
    \/ \E alert \in InvestigatedAlerts : InvestigateFails(alert)
    \/ NextInvestigation

StoreInit ==
    /\ reply = <<>>
    /\ creates = <<>>
    /\ scored = <<>>
    /\ parsed = NoAnswer

Init == ConnInit /\ AlertInit /\ StoreInit

vars == <<connVars, alertVars, storeVars>>

\* the connection manager and the cache, driven by one caller
Next == ConnNext

Spec == Init /\ [][Next]_vars

\* the webhook and its background tasks
PipelineNext == AlertNext

Pipeline == Init /\ [][PipelineNext]_vars

\* the event loop resumes every task that can run, and the engine answers
\* (returns or raises) every call
TaskFairness ==
    \A r \in 1..MaxRequests :
        /\ WF_vars(StartTask(r))
        /\ WF_vars(InitializeDone(r))
        /\ WF_vars(RunChatDone(r))

\* the alert's severity label is there and, lower-cased, is critical or high
Qualifies(alert) ==
    alert.severity # ABSENT /\ Lower(alert.severity) \in {s_critical, s_high}

\* the payloads of the fair runs: two qualifying alerts, one, and a resolved one
LivePayloads ==
    {p \in Payloads :
        /\ \A i \in DOMAIN p.alerts : Qualifies(p.alerts[i])
        /\ \A i, j \in DOMAIN p.alerts : i < j => p.alerts[i].fingerprint = <<"fp1">>
                                               /\ p.alerts[j].fingerprint = <<"fp2">>
        /\ p.status = firing <=> p.alerts # <<>>}

LiveNext ==
    \/ \E payload \in LivePayloads : GrafanaWebhook(payload)
    \/ \E r \in 1..MaxRequests : StartTask(r)
    \/ \E r \in 1..MaxRequests : InitializeDone(r)
    \/ \E r \in 1..MaxRequests : RunChatDone(r)
    \/ Tick

LivePipeline == Init /\ [][LiveNext]_vars /\ TaskFairness

\* several background tasks sharing one connection manager: their calls of
\* connect, ensure_connected and disconnect interleave at the awaits
Tasks == {1, 2}

SharedInit ==
    /\ session = NONE
    /\ exit_stack = NONE
    /\ connection_attempts = 0
    /\ stacks = [i \in StackIds |-> FREE]
    /\ cache = [k \in Keys |-> NoVal]
    /\ pc = [t \in Tasks |-> "idle"]
    /\ op = [t \in Tasks |-> NoOp]
    /\ frame = [t \in Tasks |-> NoFrame]
    /\ res = [t \in Tasks |-> NoRes]
    /\ lastRet = [k \in RawKeys |-> NoVal]
    /\ AlertInit
    /\ StoreInit

\* each task makes one call on the manager and runs it to its end
SharedNext ==
    \E t \in Tasks :
        \/ op[t] = NoOp /\ Connect(t)
        \/ TransportStep(t)
        \/ SessionStep(t)
        \/ InitStep(t)
        \/ CleanupStep(t)
        \/ op[t] = NoOp /\ EnsureConnected(t)
        \/ op[t] = NoOp /\ Disconnect(t)
        \/ DisconnectExit(t)

Shared == SharedInit /\ [][SharedNext]_vars

\* tasks sharing one manager and its cache: each invokes the tool once or
\* invalidates once, for one of two argument mappings or for all
RaceTool == "prometheus_query"

RaceArgs == {a \in ArgDicts : a[1][1] = "query"}

RaceNext ==
    \E t \in Tasks :
        \/ op[t] = NoOp /\ \E args \in RaceArgs : InvokeTool(t, RaceTool, args)
        \/ TransportStep(t)
        \/ SessionStep(t)
        \/ InitStep(t)
        \/ CleanupStep(t)
        \/ CallTool(t)
        \/ op[t] = NoOp /\ \E optargs \in {<<>>} \cup {<<a>> : a \in RaceArgs} :
                               InvalidateCache(t, RaceTool, optargs)

Racing == SharedInit /\ [][RaceNext]_vars

\* calculate_confidence applied again and again
Scoring == Init /\ [][ScoreNext]_vars

\* the ticket store driven through its endpoints
TicketStore == Init /\ [][StoreNext]_vars

\* investigate_alert_with_ai on the engine's answers
Parsing == Init /\ [][ParseNext]_vars

(***************************************************************************)
(* Properties of the connection manager.                                   *)
(***************************************************************************)
\* caller t is back from a call of connect() (directly or through
\* ensure_connected) that raised
ConnectRaised(t) ==
    /\ pc[t] = "idle"
    /\ op[t].type \in {"connect", "ensure_connected"}
    /\ res[t].kind = "raised"

Disconnected == session = NONE /\ exit_stack = NONE

\* C1: after a connect() that used up its attempts and raised, the manager is
\* Disconnected with the attempt counter back at 0, so that a later connect()
\* makes fresh attempts.
C1_CounterResetOnExhaustion ==
    \A t \in Callers :
        ConnectRaised(t) => Disconnected /\ connection_attempts = 0

\* C2: a connect() entered with the counter at 0 raises exactly when three
\* attempts have failed; the error it raises wraps the failure of the last
\* attempt, and at that moment the session and the exit stack are absent and
\* no stack holds a transport or a session.
C2_ExhaustionRaisesAndReleases ==
    \A t \in Callers :
        (pc[t] = "idle" /\ op[t].type = "connect" /\ frame[t].att0 = 0
            /\ res[t].kind # "none")
        => /\ (res[t].kind = "raised") = (frame[t].fails = max_retries)
           /\ frame[t].made <= max_retries
           /\ res[t].kind = "raised" =>
                /\ res[t].err = "ConnectionError"
                /\ res[t].cause = frame[t].lastFail
                /\ res[t].cause \in Errors
                /\ Disconnected
                /\ OpenStacks(stacks) = {}

C2_Witness ==
    \E t \in Callers :
        /\ ConnectRaised(t)
        /\ op[t].type = "connect"
        /\ frame[t].att0 = 0
        /\ frame[t].fails = max_retries
        /\ res[t].cause = "e2"

\* the call name(args) hits the cache because an invoke of the same tool with an
\* equal mapping fetched a content that has not been invalidated since
Fetched(name, args) ==
    {k \in RawKeys : k[1] = name /\ SameMapping(k[2], args) /\ lastRet[k] # NoVal}

\* C3: an invoke of a tool with a mapping equal to that of an earlier successful
\* invoke (whatever the order of its keys), with no invalidate in between,
\* returns in one step the content the earlier call returned: no call_tool is
\* awaited, no connection attempt is made and session, exit stack, attempt
\* counter and resources stay as they were, also when Disconnected.
C3_SecondInvokeServedFromCache ==
    [][\A t \in Callers : \A name \in ToolNames : \A args \in ArgDicts :
          (InvokeTool(t, name, args) /\ Fetched(name, args) # {})
          => /\ pc'[t] = "idle"
             /\ \A k \in Fetched(name, args) : res'[t] = Returned(lastRet[k])
             /\ frame'[t].made = 0
             /\ UNCHANGED <<session, exit_stack, connection_attempts, stacks,
                             cache, lastRet>>]_vars

\* a hit while Disconnected, for a mapping written in another order than the
\* call that fetched the content
C3_Witness ==
    \E t \in Callers :
        /\ pc[t] = "idle"
        /\ op[t].type = "invoke"
        /\ res[t].kind = "returned"
        /\ res[t].val \in Contents
        /\ Disconnected
        /\ \E k \in Fetched(op[t].name, op[t].args) :
                k[2] # op[t].args /\ lastRet[k] = res[t].val

\* C4: disconnect() returns normally and leaves the manager Disconnected, also
\* when releasing the resources fails.
C4_DisconnectEndsDisconnected ==
    \A t \in Callers :
        (pc[t] = "idle" /\ op[t].type = "disconnect")
        => res[t] = Returned(NoVal) /\ Disconnected

(***************************************************************************)
(* Properties of the webhook and of the background tasks.                  *)
(***************************************************************************)
Received == DOMAIN requests

\* C5 as claimed: a payload that is not firing schedules nothing and the
\* reason of the response is the payload's status.
C5_ReasonIsStatus ==
    \A r \in Received :
        ~(requests[r].status = firing)
        => /\ background[r] = <<>>
           /\ responses[r] = [status |-> <<"ignored">>, reason |-> requests[r].status]

\* C5, amended: a payload whose status is not "firing" schedules no background
\* task, whatever alerts it carries, and is answered {status: "ignored",
\* reason} where reason is "Alert status is " followed by that status.
C5_NotFiringIsIgnored ==
    \A r \in Received :
        ~(requests[r].status = firing)
        => /\ background[r] = <<>>
           /\ finished[r] = 0
           /\ running[r] = "idle"
           /\ responses[r] = [status |-> <<"ignored">>,
                              reason |-> <<"Alert status is ">> \o requests[r].status]

C5_Witness ==
    \E r \in Received :
        /\ requests[r].status = <<"resolved">>
        /\ Len(requests[r].alerts) = MaxAlerts
        /\ \A i \in DOMAIN requests[r].alerts : Qualifies(requests[r].alerts[i])
        /\ responses[r].status = <<"ignored">>

\* C6: a firing payload is acknowledged with exactly its qualifying alerts, in
\* payload order, each as {fingerprint, lower-cased severity,
\* "queued_for_investigation"}; processed_count is their number, and the
\* background tasks are those alerts, one task each.
C6_AcknowledgesQualifyingAlerts ==
    \A r \in Received :
        requests[r].status = firing
        => LET kept == SelectSeq(requests[r].alerts, Qualifies)
           IN  /\ responses[r].status = <<"received">>
               /\ responses[r].processed_count = Len(kept)
               /\ responses[r].alerts =
                    [i \in 1..Len(kept) |->
                        [fingerprint |-> kept[i].fingerprint,
                         severity |-> Lower(kept[i].severity),
                         status |-> <<"queued_for_investigation">>]]
               /\ background[r] = kept

C6_Witness ==
    \E r \in Received :
        /\ requests[r].status = firing
        /\ Len(requests[r].alerts) = 2
        /\ ~Qualifies(requests[r].alerts[1])
        /\ requests[r].alerts[2].severity = <<"H", "i", "g", "h">>
        /\ responses[r].processed_count = 1
        /\ Len(background[r]) = 1

\* C7: every request is answered in the step that receives it, before any
\* step of its background tasks; a firing payload is answered "received"; and
\* no later step (an investigation that succeeds, fails or stays pending, a
\* ticket written or not) changes a response.
C7_ResponseIndependentOfInvestigation ==
    /\ [](\A r \in Received :
            /\ r \in DOMAIN responses
            /\ requests[r].status = firing =>
                 /\ responses[r].status = <<"received">>
                 /\ responses[r].processed_count = Len(background[r]))
    /\ [][/\ \A r \in DOMAIN responses : responses'[r] = responses[r]
          /\ \A r \in DOMAIN responses' \ DOMAIN responses :
                finished'[r] = 0 /\ running'[r] = "idle" /\ tickets_dir' = tickets_dir]_vars

\* the request was answered "received" and one of its tasks has since failed
\* while another request's investigation is still pending
C7_Witness ==
    \E r \in Received :
        /\ responses[r].status = <<"received">>
        /\ last # <<>>
        /\ last[1].request = r
        /\ last[1].raised
        /\ \E r2 \in Received : r2 # r /\ running[r2] = "run_chat"

\* C8: when the engine could not be built, initialized or called, or its
\* answer could not be parsed, investigate_alert_with_ai returns (it does not
\* raise) the fallback: confidence 0.0, the fixed hypothesis, the impact
\* "Alert triggered: " + the alert's description, the three fixed actions and
\* the single evidence placeholder.
C8_EngineFailureGivesFallback ==
    (last # <<>> /\ last[1].engine = "raised")
    => /\ ~last[1].investigated.raised
       /\ LET inv == last[1].investigated.investigation
              description == IF last[1].alert.description = ABSENT
                             THEN <<"No description">>
                             ELSE last[1].alert.description
          IN  /\ inv.confidence = 0
              /\ inv.root_cause_hypothesis =
                    <<"AI investigation failed - manual investigation required">>
              /\ inv.impact_assessment = <<"Alert triggered: ">> \o description
              /\ inv.recommended_actions =
                    << <<"Check Grafana dashboard">>, <<"Review recent deployments">>,
                       <<"Check service logs">> >>
              /\ inv.related_evidence = << <<"AI investigation unavailable">> >>

C8_Witness ==
    /\ last # <<>>
    /\ last[1].engine = "raised"
    /\ last[1].alert.description # ABSENT
    /\ last[1].alert.summary = ABSENT
    /\ last[1].written = 2

\* every background task of request r is over
AllTasksOver(r) == r \in Received /\ finished[r] = Len(background[r])

\* the two files of the ticket are in TICKETS_DIR
Persisted(ticket) ==
    /\ tickets_dir[ticket.ticket_number \o <<".json">>] = JsonFile(ticket)
    /\ tickets_dir[ticket.ticket_number \o <<".txt">>] = format_ticket_text(ticket)

\* C9: with tasks resumed fairly and an engine that answers, every task of
\* every request ends; the investigation never raises, whatever the engine
\* did, and a task whose two writes succeeded ends with the ticket of its
\* alert persisted, built from the fallback when the engine failed.
C9_EveryAlertGetsATicket ==
    /\ \A r \in 1..MaxRequests : (r \in Received) ~> AllTasksOver(r)
    /\ [](last # <<>> =>
            /\ ~last[1].investigated.raised
            /\ last[1].written = 2 =>
                 /\ ~last[1].raised
                 /\ Persisted(last[1].ticket[1])
                 /\ last[1].ticket[1].investigation_summary =
                       last[1].investigated.investigation.root_cause_hypothesis
                 /\ last[1].ticket[1].description.alert =
                       (IF last[1].alert.alertname = ABSENT THEN <<"Unknown Alert">>
                        ELSE last[1].alert.alertname)
                 /\ last[1].engine = "raised" =>
                       last[1].ticket[1].investigation_summary = FallbackHypothesis)

C9_Witness ==
    /\ last # <<>>
    /\ last[1].engine = "raised"
    /\ last[1].written = 2
    /\ Persisted(last[1].ticket[1])
    /\ AllTasksOver(last[1].request)
    /\ Len(background[last[1].request]) = 2

\* a task of request r ends in this step
TaskEnds(r) == r \in Received /\ finished'[r] = finished[r] + 1

\* C10: an error raised in a background task ends that task only: the runner
\* of its request is never aborted and goes on with the next task; the step
\* changes nothing of the tasks of other requests nor of the tasks still
\* queued; and (tasks resumed fairly, engine answering) after a failure every
\* task of every request still runs to its end.
C10_FailureEndsOnlyItsTask ==
    /\ [](\A r \in Received : running[r] \in {"idle", "initialize", "run_chat"})
    /\ [][\A r \in 1..MaxRequests :
            (TaskEnds(r) /\ last'[1].raised)
            => /\ running'[r] = "idle"
               /\ background' = background
               /\ \A r2 \in Received \ {r} :
                     running'[r2] = running[r2] /\ finished'[r2] = finished[r2]]_vars
    /\ \A r \in 1..MaxRequests :
          (last # <<>> /\ last[1].raised /\ r \in Received) ~> AllTasksOver(r)

\* the only request had two tasks; the write of one failed half way (its
\* .json is there without its .txt) and the other has ended with its ticket
C10_Witness ==
    /\ Len(requests) = 1
    /\ Len(background[1]) = 2
    /\ finished[1] = 2
    /\ ~last[1].raised
    /\ \E n \in TicketNumbers :
          /\ tickets_dir[n \o <<".json">>] # NoFile
          /\ tickets_dir[n \o <<".txt">>] = NoFile

(***************************************************************************)
(* Properties of the ticket store, the cache and the connection guard.     *)
(***************************************************************************)
\* C11: ticket identifiers are unique: two tickets that create returned since
\* the last clear never carry the same ticket number, so the tickets in the
\* store (both files present) are as many as the creates that succeeded.
C11_TicketNumbersUnique ==
    /\ \A i, j \in DOMAIN creates :
          i # j => creates[i].ticket_number # creates[j].ticket_number
    /\ Cardinality({n \in TicketNumbers :
                       /\ tickets_dir[n \o <<".json">>] # NoFile
                       /\ tickets_dir[n \o <<".txt">>] # NoFile}) = Len(creates)

\* C12: invalidate(name, None) empties every entry of that tool, whatever its
\* arguments, and touches no entry of another tool; and while no entry of a
\* tool is cached, an invoke of it with any arguments is not answered in the
\* step that looks the cache up: it goes on to the connection and the call.
C12_WildcardInvalidate ==
    [][\A t \in Callers : \A name \in ToolNames :
          /\ InvalidateCache(t, name, <<>>)
             => \A k \in Keys : cache'[k] = IF k[1] = name THEN NoVal ELSE cache[k]
          /\ \A args \in ArgDicts :
                (/\ InvokeTool(t, name, args)
                 /\ \A k \in Keys : k[1] = name => cache[k] = NoVal)
                => /\ res'[t].kind # "returned"
                   /\ (pc'[t] = "i_call" => session' # NONE)]_vars

\* a wildcard invalidation has just run while the other tool had an entry
C12_Witness ==
    \E t \in Callers :
        /\ pc[t] = "idle"
        /\ op[t].type = "invalidate"
        /\ op[t].args = <<>>
        /\ \A k \in Keys : k[1] = op[t].name => cache[k] = NoVal
        /\ \E k \in Keys : k[1] # op[t].name /\ cache[k] # NoVal

\* C13: an invoke that raises raises an invocation error naming its tool; no
\* step of an invoke that has not returned changes the cache; and when it has
\* raised nothing is cached for its name and arguments, so the same invoke
\* misses again.
C13_FailuresNotCached ==
    /\ [](\A t \in Callers :
            (pc[t] = "idle" /\ op[t].type = "invoke" /\ res[t].kind = "raised")
            => /\ res[t].err = "InvocationError"
               /\ res[t].tool = op[t].name
               /\ CacheGet(cache, op[t].name, op[t].args) = NoVal)
    /\ [][\A t \in Callers :
            (op'[t].type = "invoke" /\ res'[t].kind # "returned") => cache' = cache]_vars

\* the remote call of an invoke failed while another result was cached
C13_Witness ==
    \E t \in Callers :
        /\ pc[t] = "idle"
        /\ op[t].type = "invoke"
        /\ res[t].kind = "raised"
        /\ res[t].cause \in Errors
        /\ \E k \in Keys : cache[k] # NoVal

\* C14: the priority of a created ticket is P1 for critical, P2 for high, P3
\* for warning and P4 for every other severity (info, unknown, the empty
\* string, another spelling).
C14_PriorityTotalAndExact ==
    (reply # <<>> /\ reply.op = "create" /\ ~reply.raised)
    => reply.body[1].priority =
          (IF reply.arg = <<"c", "r", "i", "t", "i", "c", "a", "l">> THEN "P1"
           ELSE IF reply.arg = <<"h", "i", "g", "h">> THEN "P2"
           ELSE IF reply.arg = <<"w", "a", "r", "n", "i", "n", "g">> THEN "P3"
           ELSE "P4")

C14_Witness ==
    /\ reply # <<>>
    /\ reply.op = "create"
    /\ ~reply.raised
    /\ reply.arg = <<>>
    /\ reply.body[1].priority = "P4"
    /\ \E i \in DOMAIN creates : creates[i].priority = "P3"

\* no ticket of the store is half written
StoreWhole ==
    \A n \in TicketNumbers :
        tickets_dir[n \o <<".json">>] # NoFile <=> tickets_dir[n \o <<".txt">>] # NoFile

\* C15: after n creations, list(limit) answers the min(n, limit) tickets
\* created last, newest first, with count their number.
C15_ListNewestFirst ==
    (reply # <<>> /\ reply.op = "list" /\ StoreWhole)
    => LET n == Len(creates)
           k == Min(n, reply.arg)
       IN  /\ reply.body.count = k
           /\ reply.body.tickets = [i \in 1..k |-> JsonDoc(creates[n + 1 - i])]

\* C16: deleteAll empties the store and answers the number of tickets that
\* were in it.
C16_ClearReturnsTicketCount ==
    [][ClearTickets
       => /\ \A f \in FileNames : tickets_dir'[f] = NoFile
          /\ reply'.body.deleted =
                Cardinality({n \in TicketNumbers : tickets_dir[n \o <<".json">>] # NoFile})]_vars

\* C17: get answers NotFound (404) exactly when the store holds no ticket of
\* that identifier; otherwise it answers the stored document, which carries
\* that identifier; get changes nothing of the store; and the document a
\* successful create leaves in the store is the ticket it returned, its
\* creation time as text.
C17_GetFindsExactlyStored ==
    /\ []((reply # <<>> /\ reply.op = "get")
          => LET file == tickets_dir[reply.arg \o <<".json">>]
             IN  /\ reply.raised <=> file = NoFile
                 /\ reply.raised => reply.body.status_code = 404
                 /\ ~reply.raised => /\ reply.body = file[2]
                                     /\ reply.body.ticket_number = reply.arg)
    /\ [][/\ \A n \in TicketNumbers :
                GetTicket(n) => tickets_dir' = tickets_dir /\ creates' = creates
          /\ \A severity \in StoreSeverities :
                (CreateTicket(severity) /\ ~reply'.raised)
                => tickets_dir'[reply'.body[1].ticket_number \o <<".json">>] =
                      <<"json", [reply'.body[1] EXCEPT
                                    !.created_at = <<"str", reply'.body[1].created_at>>]>>]_vars

\* a get has answered the ticket created last
C17_Witness ==
    /\ reply # <<>>
    /\ reply.op = "get"
    /\ ~reply.raised
    /\ creates # <<>>
    /\ reply.arg = creates[Len(creates)].ticket_number
    /\ reply.body = JsonDoc(creates[Len(creates)])
    /\ \E n \in TicketNumbers : tickets_dir[n \o <<".json">>] = NoFile

\* C18: the confidence is min(1.0, toolCalls * 0.15 + min(0.4, length / 2000))
\* rounded to two decimals: a hundredth nearest to it (either one where it
\* lies half way), between 0 and 1; 3 tool calls and 1000 characters give
\* 0.85; and it never decreases when an input grows.
C18_ConfidenceFormula ==
    /\ [](scored # <<>> =>
            LET r == scored[1]
                long  == IF r.message_length >= 800 THEN 800 ELSE r.message_length
                sum   == r.tool_calls * 300 + long
                exact == IF sum >= 2000 THEN 2000 ELSE sum
            IN  /\ r.confidence \in 0..100
                /\ 20 * r.confidence - exact \in -10..10
                /\ (r.tool_calls = 3 /\ r.message_length = 1000) => r.confidence = 85)
    /\ [][(/\ scored # <<>>
           /\ scored' # <<>>
           /\ scored[1].tool_calls <= scored'[1].tool_calls
           /\ scored[1].message_length <= scored'[1].message_length)
          => scored[1].confidence <= scored'[1].confidence]_vars

C18_Witness ==
    /\ scored # <<>>
    /\ scored[1].tool_calls = 3
    /\ scored[1].message_length = 1000
    /\ scored[1].confidence = 85

\* C19: a remote call is issued only on a session, and when ensure_connected
\* has returned (not raised) the manager is connected.
C19_CallsOnlyWhenConnected ==
    \A t \in Callers :
        /\ pc[t] = "i_call" => frame[t].sess # NONE
        /\ (pc[t] = "idle" /\ op[t].type = "ensure_connected" /\ res[t].kind = "returned")
           => session # NONE

\* C20: with several tasks on one manager at most one connection attempt is
\* in progress, at most one exit stack holds an open transport or session,
\* and every stack that holds one is the manager's or is being released.
C20_ConnectionSerialized ==
    /\ Cardinality({t \in DOMAIN pc : pc[t] \in {"c_transport", "c_session", "c_init"}}) <= 1
    /\ Cardinality(OpenStacks(stacks)) <= 1
    /\ \A i \in OpenStacks(stacks) :
          \/ i = exit_stack
          \/ \E t \in DOMAIN pc : pc[t] \in {"c_cleanup", "d_exit"} /\ frame[t].stk = i

\* C21: in every reachable state, interleaved connect() calls of several
\* tasks included, the attempt counter lies between 0 and the maximum retry
\* count.
C21_AttemptsBounded ==
    connection_attempts \in 0..max_retries

\* C22: a connect() that entered its loop with the counter at 0 starts at
\* most three attempts; each attempt begins only after all earlier ones
\* failed and with no transport or session left open by them, at whichever
\* step they failed; the call returns at its first successful attempt, and
\* then the manager is Connected on that attempt's stack with the counter 0.
C22_RetryAfterRelease ==
    \A t \in Callers :
        (op[t].type = "connect" /\ frame[t].att0 = 0 /\ frame[t].made >= 1)
        => /\ frame[t].made <= max_retries
           /\ pc[t] = "c_transport" =>
                /\ frame[t].fails = frame[t].made - 1
                /\ session = NONE
                /\ OpenStacks(stacks) = {}
           /\ (pc[t] = "idle" /\ res[t].kind = "returned") =>
                /\ frame[t].fails = frame[t].made - 1
                /\ session # NONE
                /\ exit_stack = session
                /\ OpenStacks(stacks) = {session}
                /\ stacks[session] = {"transport", "session"}
                /\ connection_attempts = 0

\* the third attempt begins after two failed ones, nothing left open
C22_Witness ==
    \E t \in Callers :
        /\ op[t].type = "connect"
        /\ frame[t].att0 = 0
        /\ pc[t] = "c_transport"
        /\ frame[t].made = max_retries
        /\ frame[t].fails = 2
        /\ OpenStacks(stacks) = {}

\* the text the last investigation parsed, when it parsed one
ParsedText == parsed.out # <<>> /\ parsed.message # NoMessage

\* the least number of a set of line numbers, or one past the end of the text
FirstOf(text, found) ==
    IF found = {} THEN Len(text) + 1 ELSE CHOOSE j \in found : \A k \in found : j <= k

\* a line starting with ** or ###
IsSectionMarker(line) ==
    StartsWith(line, <<"*", "*">>) \/ StartsWith(line, <<"#", "#", "#">>)

\* a line mentioning both "recommended" and "action"
IsActionsHeader(line) ==
    /\ Contains(Lower(line), <<"r", "e", "c", "o", "m", "m", "e", "n", "d", "e", "d">>)
    /\ Contains(Lower(line), <<"a", "c", "t", "i", "o", "n">>)

\* C23: the recommended actions of a parsed answer are at most 5, and unless
\* they are the default list each of them is a line (with or without its
\* bullet) lying after the actions header and before the first section
\* marker that follows it: neither the marker nor a later line is among them.
C23_ActionsStopAtMarker ==
    ParsedText =>
        LET text    == parsed.message
            actions == parsed.out[1].investigation.recommended_actions
            h       == FirstOf(text, {j \in 1..Len(text) : IsActionsHeader(text[j])})
            m       == FirstOf(text, {j \in (h + 1)..Len(text) : IsSectionMarker(text[j])})
        IN  /\ Len(actions) <= 5
            /\ \/ actions = DefaultActions
               \/ \A k \in DOMAIN actions :
                     \E i \in (h + 1)..(m - 1) :
                         actions[k] \in {Strip(text[i]), LStripSet(Strip(text[i]), BulletChars)}

\* the header line of a section: it mentions the section's name and carries
\* a ** or ### mark
IsSectionHeader(line, section_name) ==
    /\ Contains(Lower(line), Lower(section_name))
    /\ Contains(line, <<"*", "*">>) \/ Contains(line, <<"#", "#", "#">>)

SectionFallback(section_name) == <<"See full investigation for ">> \o section_name

\* C24: the root cause and the impact of a parsed answer are the fallback
\* "See full investigation for <section>", or the lines of a stretch lying
\* after the section's header and before the next section marker, joined with
\* spaces; and they are the fallback when that marker follows the header at
\* once.
C24_SectionStopsAtMarker ==
    ParsedText =>
        LET text == parsed.message
            inv  == parsed.out[1].investigation
            Allowed(section_name) ==
                LET h == FirstOf(text, {j \in 1..Len(text) :
                                          IsSectionHeader(text[j], section_name)})
                    m == FirstOf(text, {j \in (h + 1)..Len(text) :
                                          IsSectionMarker(text[j])})
                IN  {SectionFallback(section_name)} \cup
                    { Join(<<" ">>, [k \in 1..(b - a + 1) |-> Strip(text[a + k - 1])]) :
                        a \in (h + 1)..(m - 1), b \in (h + 1)..(m - 1) }
        IN  /\ inv.root_cause_hypothesis
                 \in Allowed(<<"R", "o", "o", "t", " ", "C", "a", "u", "s", "e">>)
            /\ inv.impact_assessment \in Allowed(<<"I", "m", "p", "a", "c", "t">>)

\* C25: every investigation that investigate_alert_with_ai returns, parsed
\* from an answer of the engine or built as the fallback, has a confidence
\* between 0.00 and 1.00 (in hundredths), one to five recommended actions, one
\* to ten pieces of evidence, and a root cause and an impact that are not
\* empty.
C25_InvestigationWithinBounds ==
    (parsed.out # <<>> /\ ~parsed.out[1].raised) =>
        LET inv == parsed.out[1].investigation
        IN  /\ inv.confidence \in 0..100
            /\ Len(inv.recommended_actions) \in 1..5
            /\ Len(inv.related_evidence) \in 1..10
            /\ inv.root_cause_hypothesis # <<>>
            /\ inv.impact_assessment # <<>>

\* an answer with twelve evidence lines after seven tool calls: ten pieces of
\* evidence are kept and the confidence is 1.00
C25_Witness ==
    /\ parsed.out # <<>>
    /\ ~parsed.out[1].raised
    /\ parsed.message = ManyEvidence
    /\ parsed.tool_calls = 7
    /\ parsed.out[1].investigation.confidence = 100
    /\ Len(parsed.out[1].investigation.related_evidence) = 10

\* C26: when the entry of an invoke was invalidated while its remote call was
\* in flight, the end of that call leaves nothing in the cache for the entry:
\* a result fetched before the invalidation is not stored after it.
C26_InvalidateBeatsInFlight ==
    [][\A t \in Tasks :
          (pc[t] = "i_call" /\ frame[t].overtaken /\ pc'[t] = "idle")
          => CacheGet(cache', op[t].name, op[t].args) = NoVal]_vars

\* the invoke of caller t has just returned the error value of a response
\* without content
NoContentReturned(t) ==
    /\ pc[t] = "idle"
    /\ op[t].type = "invoke"
    /\ res[t] = NoResponse(op[t].name)

\* C27: an invoke whose remote call ends with a response without content
\* returns the error value, not an exception, and changes nothing in the
\* cache, so that nothing is cached for its name and arguments and the same
\* invoke calls the tool again; the cache never holds anything but the
\* content of a response, stored by the invoke that returns it.
C27_NoContentNotCached ==
    /\ [](\A t \in Callers :
            /\ NoContentReturned(t) => CacheGet(cache, op[t].name, op[t].args) = NoVal
            /\ \A k \in Keys : cache[k] \in Contents \cup {NoVal})
    /\ [][\A t \in Callers :
            /\ (pc[t] = "i_call" /\ NoContentReturned(t)')
               => /\ cache' = cache
                  /\ res'[t].kind = "returned"
                  /\ res'[t].val = "error"
            /\ (pc[t] = "i_call" /\ cache' # cache)
               => /\ res'[t].kind = "returned"
                  /\ res'[t].val \in Contents
                  /\ cache' = CacheSet(cache, op[t].name, op[t].args, res'[t].val)
            /\ (NoContentReturned(t) /\ InvokeTool(t, op[t].name, op[t].args))
               => res'[t].kind # "returned"]_vars

\* a response without content has been answered while another call's content
\* stays cached
C27_Witness ==
    \E t \in Callers :
        /\ NoContentReturned(t)
        /\ CacheGet(cache, op[t].name, op[t].args) = NoVal
        /\ \E k \in Keys : cache[k] \in Contents

=============================================================================
